---- MODULE Spec2Model ----
(***************************************************************************)
(* A model of the tree-walking evaluator of the interpreter:               *)
(*   src/src/interpreter.rs      Interpreter, StmtVisitor, ExprVisitor     *)
(*   src/src/environment/mod.rs  Object, ObjectCaller                      *)
(* The scope chain (environment/environment.rs), the AST (statement.rs,    *)
(* expression.rs), the error reporter and the builtins are not part of the *)
(* two files above; they are modelled from the written specification and   *)
(* marked as such where they are defined.                                  *)
(*                                                                         *)
(* The evaluator is recursive and single-threaded, so a statement handed   *)
(* to evaluate_stmt runs to completion: each action of the model is one    *)
(* top-level statement, evaluated by the operators EvalExpr and ExecStmt,   *)
(* which thread the interpreter's state through the evaluation.            *)
(***************************************************************************)
EXTENDS Integers, Sequences, FiniteSets, TLC

(* ----------------------------- bounds ---------------------------------- *)
\* top-level statements run by one behaviour
MaxSteps == 3
\* largest magnitude of a finite Number the model follows
MaxNum == 4
\* longest String the model follows
MaxStrLen == 3

(* ------------------------- Object (mod.rs:16-30) ----------------------- *)
\* Number(f64): the model follows the integers of magnitude <= MaxNum and the
\* IEEE-754 values inf, -inf and NaN; c = "oob" marks a result outside that
\* domain (a fraction, a negative zero, a larger magnitude).
Number(n) == [t |-> "Number", c |-> "fin", v |-> n]
Inf == [t |-> "Number", c |-> "inf", v |-> 0]
NegInf == [t |-> "Number", c |-> "ninf", v |-> 0]
NaN == [t |-> "Number", c |-> "nan", v |-> 0]
OutOfDomain == [t |-> "Number", c |-> "oob", v |-> 0]
Boolean(b) == [t |-> "Boolean", v |-> b]
String(s) == [t |-> "String", v |-> s]
Nil == [t |-> "Nil"]
Unitialized == [t |-> "Unitialized"]
Return(o) == [t |-> "Return", v |-> o]
Function(name, params, body, environment) ==
    [t |-> "Function", name |-> name, params |-> params, body |-> body,
     environment |-> environment]
Builtin(name) == [t |-> "Builtin", name |-> name]

(* ------------------------ f64 arithmetic ------------------------------- *)
Sign(x) == IF x.c = "inf" THEN 1
           ELSE IF x.c = "ninf" THEN -1
           ELSE IF x.v > 0 THEN 1 ELSE IF x.v < 0 THEN -1 ELSE 0

Abs(n) == IF n < 0 THEN -n ELSE n

Fin(n) == IF Abs(n) > MaxNum THEN OutOfDomain ELSE Number(n)

Signed(s) == IF s > 0 THEN Inf ELSE NegInf

AnyIs(x, y, c) == x.c = c \/ y.c = c

\* unary minus (interpreter.rs:151); -(0.0) is the negative zero
NumNeg(x) ==
    CASE x.c = "oob" -> OutOfDomain
      [] x.c = "nan" -> NaN
      [] x.c = "inf" -> NegInf
      [] x.c = "ninf" -> Inf
      [] OTHER -> IF x.v = 0 THEN OutOfDomain ELSE Number(-x.v)

\* num1 + num2 (interpreter.rs:173)
NumAdd(x, y) ==
    CASE AnyIs(x, y, "oob") -> OutOfDomain
      [] AnyIs(x, y, "nan") -> NaN
      [] x.c = "fin" /\ y.c = "fin" -> Fin(x.v + y.v)
      [] x.c = "fin" -> y
      [] y.c = "fin" -> x
      [] OTHER -> IF x.c = y.c THEN x ELSE NaN

\* num1 - num2 (interpreter.rs:174)
NumSub(x, y) ==
    CASE AnyIs(x, y, "oob") -> OutOfDomain
      [] AnyIs(x, y, "nan") -> NaN
      [] x.c = "fin" /\ y.c = "fin" -> Fin(x.v - y.v)
      [] x.c = "fin" -> Signed(-Sign(y))
      [] y.c = "fin" -> x
      [] OTHER -> IF x.c = y.c THEN NaN ELSE x

\* num1 * num2 (interpreter.rs:176); 0 * negative is the negative zero
NumMul(x, y) ==
    CASE AnyIs(x, y, "oob") -> OutOfDomain
      [] AnyIs(x, y, "nan") -> NaN
      [] x.c = "fin" /\ y.c = "fin" ->
            IF (x.v = 0 /\ y.v < 0) \/ (y.v = 0 /\ x.v < 0)
            THEN OutOfDomain ELSE Fin(x.v * y.v)
      [] OTHER -> IF Sign(x) = 0 \/ Sign(y) = 0 THEN NaN
                  ELSE Signed(Sign(x) * Sign(y))

\* num1 / num2 (interpreter.rs:175): no fault, x / 0 is an infinity or NaN
NumDiv(x, y) ==
    CASE AnyIs(x, y, "oob") -> OutOfDomain
      [] AnyIs(x, y, "nan") -> NaN
      [] x.c = "fin" /\ y.c = "fin" ->
            IF y.v = 0
            THEN (IF x.v = 0 THEN NaN ELSE Signed(x.v))
            ELSE IF x.v = 0
                 THEN (IF y.v < 0 THEN OutOfDomain ELSE Number(0))
                 ELSE IF Abs(x.v) % Abs(y.v) = 0
                      THEN Fin(Sign(x) * Sign(y) * (Abs(x.v) \div Abs(y.v)))
                      ELSE OutOfDomain
      [] x.c = "fin" ->
            IF Sign(x) * Sign(y) < 0 THEN OutOfDomain ELSE Number(0)
      [] y.c = "fin" ->
            IF y.v < 0 THEN Signed(-Sign(x)) ELSE x
      [] OTHER -> NaN

\* num1 == num2 (interpreter.rs:182): NaN equals nothing
NumEq(x, y) == ~AnyIs(x, y, "nan") /\ x.c = y.c /\ x.v = y.v

\* num1 < num2 (interpreter.rs:179)
NumLess(x, y) ==
    CASE AnyIs(x, y, "nan") -> FALSE
      [] x.c = "fin" /\ y.c = "fin" -> x.v < y.v
      [] x.c = y.c -> FALSE
      [] OTHER -> x.c = "ninf" \/ y.c = "inf"

(* -------------------- Object methods (mod.rs:39-114) ------------------- *)
\* is_thuthy as it would be if zero and the empty string were falsy
is_thuthy_ZeroFalsy(self) ==
    CASE self.t \in {"Nil", "Unitialized"} -> FALSE
      [] self.t = "Boolean" -> self.v
      [] self.t = "Number" -> ~(self.c = "fin" /\ self.v = 0)
      [] self.t = "String" -> self.v # ""
      [] OTHER -> TRUE

\* Object::is_thuthy (mod.rs:40-46)
is_thuthy(self) ==
    CASE self.t \in {"Nil", "Unitialized"} -> FALSE
      [] self.t = "Boolean" -> self.v
      [] OTHER -> TRUE

\* is_equal as it would be if Nil, Uninitialized and false were one value
is_equal_Coercing(self, other) ==
    LET empty(o) == o.t \in {"Nil", "Unitialized"} \/ (o.t = "Boolean" /\ ~o.v)
    IN CASE empty(self) /\ empty(other) -> TRUE
         [] self.t = "Number" /\ other.t = "Number" -> NumEq(self, other)
         [] self.t = "Boolean" /\ other.t = "Boolean" -> self.v = other.v
         [] self.t = "String" /\ other.t = "String" -> self.v = other.v
         [] OTHER -> FALSE

\* Object::is_equal (mod.rs:48-59): the arms are tried in order
is_equal(self, other) ==
    CASE self.t = "Nil" /\ other.t = "Nil" -> TRUE
      [] self.t = "Unitialized" /\ other.t = "Unitialized" -> TRUE
      [] self.t = "Nil" -> FALSE
      [] self.t = "Unitialized" -> FALSE
      [] self.t = "Number" /\ other.t = "Number" -> NumEq(self, other)
      [] self.t = "Boolean" /\ other.t = "Boolean" -> self.v = other.v
      [] self.t = "String" /\ other.t = "String" -> self.v = other.v
      [] OTHER -> FALSE

\* ObjectCaller::is_callable (mod.rs:82-88)
is_callable(self) == self.t \in {"Function", "Builtin"}

\* ObjectCaller::arity (mod.rs:108-113)
arity(self) == IF self.t = "Function" THEN Len(self.params) ELSE 0

\* the f64 case of Display (mod.rs:65)
DisplayNumber(x) ==
    CASE x.c = "fin" -> ToString(x.v)
      [] x.c = "inf" -> "inf"
      [] x.c = "ninf" -> "-inf"
      [] OTHER -> "NaN"

\* impl Display for Object (mod.rs:62-76). The rendering of a Function prints
\* the Debug form of its body, which the model does not follow: Displayable
\* says which values the model renders.
RECURSIVE Display(_)
Display(self) ==
    CASE self.t = "Number" -> DisplayNumber(self)
      [] self.t = "Boolean" -> IF self.v THEN "true" ELSE "false"
      [] self.t = "String" -> self.v
      [] self.t = "Nil" -> "nil"
      [] self.t = "Unitialized" -> "unitialized"
      [] self.t = "Return" -> "return " \o Display(self.v)
      [] self.t = "Builtin" -> self.name
      [] OTHER -> "fn " \o self.name

RECURSIVE Displayable(_)
Displayable(self) ==
    CASE self.t = "Function" -> FALSE
      [] self.t = "Return" -> Displayable(self.v)
      [] self.t = "Number" -> self.c # "oob"
      [] OTHER -> TRUE

(* ------------------- the evaluation state ------------------------------ *)
\* The state threaded through one evaluation:
\*   envs, environment   the scopes alive and Interpreter.environment
\*   errors, output      what the error reporter and stdout have received
\*   aborted             a panic! has ended the process
\*   oob                 the evaluation has left the domain of the model
\*   native              the value the native function returns in this run
\*   events, evals, writes   observations of this evaluation: the events the
\*                       claims are stated on, the number of evaluate_expr
\*                       calls and the number of scope mutations so far
\* nothing runs after a panic, and the model follows an evaluation no further
\* once it has left its domain
Stopped(st) == st.aborted \/ st.oob

Observe(st, ev) ==
    IF Stopped(st) THEN st ELSE [st EXCEPT !.events = Append(@, ev)]

\* ErrorHandler::runtime_error(token, message), called at interpreter.rs:29:
\* the reporter records the fault and returns
ErrorHandler_runtime_error(st, token, message) ==
    IF Stopped(st) THEN st
    ELSE [st EXCEPT !.errors = Append(@, [token |-> token, message |-> message])]

\* panic! (interpreter.rs:91): the process ends where it stands
Panic(st) == [st EXCEPT !.aborted = TRUE]

\* a result outside the numbers and strings the model follows
Leaves(st, value) ==
    IF value.t = "Number" /\ value.c = "oob" THEN [st EXCEPT !.oob = TRUE]
    ELSE IF value.t = "String" /\ Len(value.v) > MaxStrLen
         THEN [st EXCEPT !.oob = TRUE]
         ELSE st

(* --------------- Environment (environment/environment.rs) -------------- *)
\* Environment::new() and Environment::new_enclosing(parent) wrapped in
\* Rc<RefCell<..>>: a fresh scope; enclosing = 0 is None
NoEnv == 0

NewEnvironment(enclosing) == [enclosing |-> enclosing, values |-> <<>>]

Rc_new(st, env) ==
    IF Stopped(st) THEN st
    ELSE [st EXCEPT !.envs = Append(@, env), !.writes = @ + 1]

\* the scope Rc_new has just allocated
Newest(st) == Len(st.envs)

\* Environment::define: insert or overwrite in this scope only
define(st, env, name, value) ==
    IF Stopped(st) THEN st
    ELSE [st EXCEPT !.envs[env].values = (name :> value) @@ @,
                    !.writes = @ + 1]

\* the innermost scope of the chain from env that binds name, or NoEnv
RECURSIVE Resolve(_, _, _)
Resolve(envs, env, name) ==
    IF env = NoEnv THEN NoEnv
    ELSE IF name \in DOMAIN envs[env].values THEN env
         ELSE Resolve(envs, envs[env].enclosing, name)

UndefinedVariable(name) == "Undefined variable '" \o name \o "'."

\* Environment::get: the value of the first match outward, else the fault is
\* reported and Nil stands in
get(st, env, name) ==
    LET at == Resolve(st.envs, env, name) IN
    IF at # NoEnv
    THEN [st |-> st, value |-> st.envs[at].values[name]]
    ELSE [st |-> ErrorHandler_runtime_error(st, name, UndefinedVariable(name)),
          value |-> Nil]

\* Environment::assign: overwrite the first match outward, else the fault is
\* reported and nothing is written
assign(st, env, name, value) ==
    LET at == Resolve(st.envs, env, name) IN
    IF Stopped(st) THEN st
    ELSE IF at # NoEnv
         THEN [st EXCEPT !.envs[at].values[name] = value, !.writes = @ + 1]
         ELSE ErrorHandler_runtime_error(st, name, UndefinedVariable(name))

(* ------------------ AST (expression.rs, statement.rs) ------------------ *)
\* (the fields of each record are written in the order TLC keeps them in)
\* Expr
ExprLiteral(value) == [value |-> value, e |-> "Literal"]
ExprVariable(name) == [name |-> name, e |-> "Variable"]
ExprAssign(name, value) == [name |-> name, value |-> value, e |-> "Assign"]
ExprGrouping(expression) == [e |-> "Grouping", expression |-> expression]
ExprUnary(operator, right) == [e |-> "Unary", operator |-> operator, right |-> right]
ExprBinary(left, operator, right) ==
    [e |-> "Binary", operator |-> operator, right |-> right, left |-> left]
ExprLogical(left, operator, right) ==
    [e |-> "Logical", operator |-> operator, right |-> right, left |-> left]
ExprCall(callee, arguments) ==
    [e |-> "Call", callee |-> callee, arguments |-> arguments, paren |-> ")"]
\* Stmt; else_branch is an Option: <<>> is None, <<s>> is Some(s)
StmtPrint(expression) == [s |-> "Print", expression |-> expression]
StmtExpression(expression) == [s |-> "Expression", expression |-> expression]
StmtBlock(statements) == [s |-> "Block", statements |-> statements]
StmtVar(name, initializer) == [s |-> "Var", name |-> name, initializer |-> initializer]
StmtWhile(condition, body) == [s |-> "While", body |-> body, condition |-> condition]
StmtIf(condition, then_branch, else_branch) ==
    [s |-> "If", condition |-> condition, then_branch |-> then_branch,
     else_branch |-> else_branch]
StmtFunction(name, params, body) ==
    [s |-> "Function", name |-> name, params |-> params, body |-> body]
StmtReturn(value) == [s |-> "Return", value |-> value]

(* ------------------- Interpreter (interpreter.rs) ---------------------- *)
RECURSIVE evaluate_expr(_, _), evaluate_stmt(_, _), ExecuteAll(_, _),
          execute_block(_, _, _), EvaluateAll(_, _), WhileLoop(_, _),
          Object_call(_, _, _)

\* the one element of a singleton: { F(r) : r \in { E } } computes E once and
\* names its value r in F
Only(S) == CHOOSE x \in S : TRUE

\* Interpreter::runtime_error (interpreter.rs:28-31): report, yield Nil
runtime_error(st, operator, message) ==
    [st |-> ErrorHandler_runtime_error(st, operator, message), value |-> Nil]

SetEnvironment(st, environment) ==
    IF Stopped(st) THEN st ELSE [st EXCEPT !.environment = environment]

\* the faults reported between two points of an evaluation
Reported(before, after) ==
    SubSeq(after.errors, Len(before.errors) + 1, Len(after.errors))

\* Expr::Literal (interpreter.rs:141)
VisitLiteral(st, expr) == [st |-> st, value |-> expr.value]

\* Expr::Grouping (interpreter.rs:142)
VisitGrouping(st, expr) == evaluate_expr(st, expr.expression)

\* Expr::Variable (interpreter.rs:138-140)
VisitVariable(st, expr) ==
    LET r == get(st, st.environment, expr.name)
        ev == [kind |-> "Variable", name |-> expr.name,
               reported |-> Reported(st, r.st), value |-> r.value]
    IN [st |-> Observe(r.st, ev), value |-> r.value]

\* Expr::Assign as it would be if it declared the name in the current scope
VisitAssign_Defines(st, expr) ==
    Only({ LET s1 == define(value.st, value.st.environment, expr.name,
                            value.value)
               ev == [kind |-> "Assign", name |-> expr.name,
                      environment |-> value.st.environment,
                      before |-> value.st.envs, after |-> s1.envs,
                      reported |-> Reported(value.st, s1),
                      assigned |-> value.value, value |-> value.value]
           IN [st |-> Observe(s1, ev), value |-> value.value]
           : value \in { evaluate_expr(st, expr.value) } })

\* Expr::Assign (interpreter.rs:99-103)
VisitAssign(st, expr) ==
    Only({ LET s1 == assign(value.st, value.st.environment, expr.name,
                            value.value)
               ev == [kind |-> "Assign", name |-> expr.name,
                      environment |-> value.st.environment,
                      before |-> value.st.envs, after |-> s1.envs,
                      reported |-> Reported(value.st, s1),
                      assigned |-> value.value, value |-> value.value]
           IN [st |-> Observe(s1, ev), value |-> value.value]
           : value \in { evaluate_expr(st, expr.value) } })

\* the tail of Expr::Logical as it would be if the right operand were
\* evaluated before the left value is tested
LogicalRight_Eager(left, expr) ==
    LET thuthy == is_thuthy(left.value)
        s1 == Observe(left.st, [kind |-> "Test", site |-> expr.operator,
                                value |-> left.value, taken |-> thuthy])
        short == IF expr.operator = "Or" THEN thuthy ELSE ~thuthy
    IN Only({ LET value == IF short THEN left.value ELSE r.value
                  ev == [kind |-> "Logical", operator |-> expr.operator,
                         left |-> left.value, right |-> expr.right,
                         value |-> value,
                         evals |-> r.st.evals - s1.evals,
                         writes |-> r.st.writes - s1.writes,
                         reported |-> Reported(s1, r.st),
                         printed |-> Len(r.st.output) - Len(s1.output)]
              IN [st |-> Observe(r.st, ev), value |-> value]
              : r \in { evaluate_expr(s1, expr.right) } })

\* the tail of Expr::Logical (interpreter.rs:126-136), left evaluated
LogicalRight(left, expr) ==
    LET thuthy == is_thuthy(left.value)
        s1 == Observe(left.st, [kind |-> "Test", site |-> expr.operator,
                                value |-> left.value, taken |-> thuthy])
        short == IF expr.operator = "Or" THEN thuthy ELSE ~thuthy
    IN Only({ LET ev == [kind |-> "Logical", operator |-> expr.operator,
                         left |-> left.value, right |-> expr.right,
                         value |-> r.value,
                         evals |-> r.st.evals - s1.evals,
                         writes |-> r.st.writes - s1.writes,
                         reported |-> Reported(s1, r.st),
                         printed |-> Len(r.st.output) - Len(s1.output)]
              IN [st |-> Observe(r.st, ev), value |-> r.value]
              : r \in { IF short THEN [st |-> s1, value |-> left.value]
                        ELSE evaluate_expr(s1, expr.right) } })

\* Expr::Logical (interpreter.rs:123-137)
VisitLogical(st, expr) ==
    Only({ LogicalRight(left, expr) : left \in { evaluate_expr(st, expr.left) } })

\* the match of Expr::Unary (interpreter.rs:146-155), right evaluated
UnaryOperator(right, operator) ==
    CASE operator = "Bang" ->
            [st |-> Observe(right.st,
                            [kind |-> "Test", site |-> "Bang",
                             value |-> right.value,
                             taken |-> is_thuthy(right.value)]),
             value |-> Boolean(~is_thuthy(right.value))]
      [] operator = "Minus" ->
            IF right.value.t = "Number"
            THEN [st |-> right.st, value |-> NumNeg(right.value)]
            ELSE runtime_error(right.st, operator, "Operand must be a number.")
      [] OTHER -> [st |-> right.st, value |-> Nil]

\* Expr::Unary (interpreter.rs:143-156)
VisitUnary(st, expr) ==
    Only({ LET r == UnaryOperator(right, expr.operator)
               ev == [kind |-> "Unary", operator |-> expr.operator,
                      right |-> right.value,
                      reported |-> Reported(right.st, r.st),
                      value |-> r.value]
           IN [st |-> Leaves(Observe(r.st, ev), r.value), value |-> r.value]
           : right \in { evaluate_expr(st, expr.right) } })

\* the String arm as it would be if the relational operators reported the
\* fault as the mixed arm does
BinaryStrings_Faulting(st, operator, str1, str2) ==
    CASE operator = "Plus" -> [st |-> st, value |-> String(str1 \o str2)]
      [] operator \in {"Slash", "Star", "Minus", "Greater", "GreaterEqual",
                       "Less", "LessEqual"} ->
            runtime_error(st, operator, "Operands must be numbers.")
      [] operator = "BangEqual" -> [st |-> st, value |-> Boolean(str1 # str2)]
      [] operator = "EqualEqual" -> [st |-> st, value |-> Boolean(str1 = str2)]
      [] OTHER -> [st |-> st, value |-> Nil]

\* (Object::String, Object::String) (interpreter.rs:162-170)
BinaryStrings(st, operator, str1, str2) ==
    CASE operator = "Plus" -> [st |-> st, value |-> String(str1 \o str2)]
      [] operator \in {"Slash", "Star", "Minus"} ->
            runtime_error(st, operator, "Operands must be numbers.")
      [] operator = "BangEqual" -> [st |-> st, value |-> Boolean(str1 # str2)]
      [] operator = "EqualEqual" -> [st |-> st, value |-> Boolean(str1 = str2)]
      [] OTHER -> [st |-> st, value |-> Nil]

\* (Object::Number, Object::Number) (interpreter.rs:171-185)
BinaryNumbers(st, operator, num1, num2) ==
    [st |-> st,
     value |->
        CASE operator = "Plus" -> NumAdd(num1, num2)
          [] operator = "Minus" -> NumSub(num1, num2)
          [] operator = "Slash" -> NumDiv(num1, num2)
          [] operator = "Star" -> NumMul(num1, num2)
          [] operator = "Greater" -> Boolean(NumLess(num2, num1))
          [] operator = "GreaterEqual" ->
                Boolean(NumLess(num2, num1) \/ NumEq(num1, num2))
          [] operator = "Less" -> Boolean(NumLess(num1, num2))
          [] operator = "LessEqual" ->
                Boolean(NumLess(num1, num2) \/ NumEq(num1, num2))
          [] operator = "BangEqual" -> Boolean(~NumEq(num1, num2))
          [] operator = "EqualEqual" -> Boolean(NumEq(num1, num2))
          [] OTHER -> Number(0)]

\* (val1, val2) (interpreter.rs:186-195)
BinaryMixed(st, operator, val1, val2) ==
    CASE operator \in {"Greater", "GreaterEqual", "Less", "LessEqual",
                       "Slash", "Star", "Minus"} ->
            runtime_error(st, operator, "Operands must be numbers.")
      [] operator = "Plus" ->
            runtime_error(st, operator,
                          "Operands must be two numbers or two strings.")
      [] operator = "BangEqual" ->
            [st |-> st, value |-> Boolean(~is_equal(val1, val2))]
      [] operator = "EqualEqual" ->
            [st |-> st, value |-> Boolean(is_equal(val1, val2))]
      [] OTHER -> [st |-> st, value |-> Nil]

\* match (left, right) (interpreter.rs:161-196), both operands evaluated
BinaryOperator(left, right, operator) ==
    LET r == CASE left.value.t = "String" /\ right.value.t = "String" ->
                    BinaryStrings(right.st, operator,
                                  left.value.v, right.value.v)
               [] left.value.t = "Number" /\ right.value.t = "Number" ->
                    BinaryNumbers(right.st, operator, left.value, right.value)
               [] OTHER ->
                    BinaryMixed(right.st, operator, left.value, right.value)
        ev == [kind |-> "Binary", operator |-> operator,
               left |-> left.value, right |-> right.value,
               reported |-> Reported(right.st, r.st), value |-> r.value]
    IN [st |-> Leaves(Observe(r.st, ev), r.value), value |-> r.value]

\* Expr::Binary (interpreter.rs:157-197)
VisitBinary(st, expr) ==
    Only({ Only({ BinaryOperator(left, right, expr.operator)
                  : right \in { evaluate_expr(left.st, expr.right) } })
           : left \in { evaluate_expr(st, expr.left) } })

\* the loop over the arguments (interpreter.rs:107-111)
EvaluateAll(st, arguments) ==
    IF arguments = <<>> THEN [st |-> st, values |-> <<>>]
    ELSE Only({ Only({ [st |-> rest.st,
                        values |-> <<first.value>> \o rest.values]
                       : rest \in { EvaluateAll(first.st, Tail(arguments)) } })
                : first \in { evaluate_expr(st, Head(arguments)) } })

\* the checks of Expr::Call as they would be without the arity check
CallChecked_NoArity(callee, args, paren) ==
    Only({ LET ev == [kind |-> "Call", callee |-> callee.value,
                      count |-> Len(args.values),
                      invocations |-> r.st.invocations - args.st.invocations,
                      bodies |-> r.st.blocks - args.st.blocks,
                      reported |-> Reported(args.st, r.st),
                      value |-> r.value]
           IN [st |-> Observe(r.st, ev), value |-> r.value]
           : r \in {
               IF ~is_callable(callee.value)
               THEN runtime_error(args.st, paren,
                                  "Can only call functions and classes.")
               ELSE Object_call(callee.value, args.st, args.values) } })

\* the checks and the invocation of Expr::Call (interpreter.rs:113-121), the
\* callee and the arguments evaluated
CallChecked(callee, args, paren) ==
    Only({ LET ev == [kind |-> "Call", callee |-> callee.value,
                      count |-> Len(args.values),
                      invocations |-> r.st.invocations - args.st.invocations,
                      bodies |-> r.st.blocks - args.st.blocks,
                      reported |-> Reported(args.st, r.st),
                      value |-> r.value]
           IN [st |-> Observe(r.st, ev), value |-> r.value]
           : r \in {
               IF ~is_callable(callee.value)
               THEN runtime_error(args.st, paren,
                                  "Can only call functions and classes.")
               ELSE IF Len(args.values) # arity(callee.value)
                    THEN runtime_error(args.st, paren,
                             "Expected " \o ToString(arity(callee.value))
                             \o " arguments, but got "
                             \o ToString(Len(args.values)) \o ".")
                    ELSE Object_call(callee.value, args.st, args.values) } })

\* Expr::Call (interpreter.rs:104-122)
VisitCall(st, expr) ==
    Only({ Only({ CallChecked(callee, args, expr.paren)
                  : args \in { EvaluateAll(callee.st, expr.arguments) } })
           : callee \in { evaluate_expr(st, expr.callee) } })

\* ExprVisitor::visit (interpreter.rs:97-200), behind evaluate_expr
\* (interpreter.rs:20-22)
evaluate_expr(st0, expr) ==
    IF Stopped(st0) THEN [st |-> st0, value |-> Nil]
    ELSE LET st == [st0 EXCEPT !.evals = @ + 1] IN
         CASE expr.e = "Assign" -> VisitAssign(st, expr)
           [] expr.e = "Call" -> VisitCall(st, expr)
           [] expr.e = "Logical" -> VisitLogical(st, expr)
           [] expr.e = "Variable" -> VisitVariable(st, expr)
           [] expr.e = "Literal" -> VisitLiteral(st, expr)
           [] expr.e = "Grouping" -> VisitGrouping(st, expr)
           [] expr.e = "Unary" -> VisitUnary(st, expr)
           [] expr.e = "Binary" -> VisitBinary(st, expr)
           [] OTHER -> [st |-> st, value |-> Nil]

\* Return::get() (returner.rs), called at mod.rs:101: the fixed marker the
\* call path yields whatever the body did
Return_get == Return(Nil)

\* the loop binding the parameters (mod.rs:94-98)
RECURSIVE DefineParams(_, _, _, _, _)
DefineParams(st, env, params, arguments, i) ==
    IF i > Len(params) THEN st
    ELSE Only({ DefineParams(s, env, params, arguments, i + 1)
                : s \in { define(st, env, params[i], arguments[i]) } })

\* a native function, func(arguments) at mod.rs:103: it returns the value this
\* run has drawn for it
Native(st, arguments) == [st |-> st, value |-> st.native]

\* the Function arm of ObjectCaller::call (mod.rs:91-102)
CallFunction(self, st, arguments) ==
    Only({ LET env == Newest(s2)
               ev(s3) == [kind |-> "Invoke", name |-> self.name,
                          closure |-> self.environment,
                          callsite |-> st.environment,
                          scope |-> env,
                          enclosing |-> s2.envs[env].enclosing,
                          bound |-> DOMAIN s2.envs[env].values]
           IN Only({ [st |-> Observe(s3, ev(s3)), value |-> Return_get]
                     : s3 \in { execute_block(s2, self.body, env) } })
           : s2 \in { LET s1 == Rc_new(st, NewEnvironment(self.environment))
                      IN DefineParams(s1, Newest(s1), self.params,
                                      arguments, 1) } })

\* ObjectCaller::call (mod.rs:89-106)
Object_call(self, st0, arguments) ==
    LET st == [st0 EXCEPT !.invocations = @ + 1] IN
    CASE self.t = "Function" -> CallFunction(self, st, arguments)
      [] self.t = "Builtin" -> Native(st, arguments)
      [] OTHER -> [st |-> st, value |-> Nil]

\* the loop over the statements (interpreter.rs:38-40)
ExecuteAll(st, statements) ==
    IF statements = <<>> THEN st
    ELSE Only({ ExecuteAll(s, Tail(statements))
                : s \in { evaluate_stmt(st, Head(statements)) } })

\* execute_block as it would be without the assignment that restores the
\* previous environment
execute_block_NoRestore(st, statements, environment) ==
    LET s1 == SetEnvironment([st EXCEPT !.blocks = @ + 1], environment)
    IN Only({ LET ev == [kind |-> "Block", before |-> st.environment,
                         active |-> s1.environment, after |-> s2.environment,
                         reported |-> Reported(st, s2)]
              IN Observe(s2, ev)
              : s2 \in { ExecuteAll(s1, statements) } })

\* Interpreter::execute_block (interpreter.rs:33-43)
execute_block(st, statements, environment) ==
    LET previous == st.environment
        s1 == SetEnvironment([st EXCEPT !.blocks = @ + 1], environment)
    IN Only({ LET s3 == SetEnvironment(s2, previous)
                  ev == [kind |-> "Block", before |-> st.environment,
                         active |-> s1.environment, after |-> s3.environment,
                         reported |-> Reported(st, s2)]
              IN Observe(s3, ev)
              : s2 \in { ExecuteAll(s1, statements) } })

\* println!("{}", value) (interpreter.rs:51)
println(st, value) ==
    IF Stopped(st) THEN st
    ELSE IF ~Displayable(value) THEN [st EXCEPT !.oob = TRUE]
         ELSE [st EXCEPT !.output = Append(@, Display(value))]

\* Stmt::Print (interpreter.rs:49-52)
VisitPrint(st, stmt) ==
    Only({ println(value.st, value.value)
           : value \in { evaluate_expr(st, stmt.expression) } })

\* Stmt::Expression (interpreter.rs:53-55)
VisitExpression(st, stmt) == evaluate_expr(st, stmt.expression).st

\* Stmt::Block as it would be if the statements ran in the current scope
VisitBlock_SameScope(st, stmt) ==
    execute_block(st, stmt.statements, st.environment)

\* Stmt::Block (interpreter.rs:56-61)
VisitBlock(st, stmt) ==
    LET s1 == Rc_new(st, NewEnvironment(st.environment))
    IN execute_block(s1, stmt.statements, Newest(s1))

\* Stmt::Var (interpreter.rs:62-65)
VisitVar(st, stmt) ==
    Only({ define(value.st, value.st.environment, stmt.name, value.value)
           : value \in { evaluate_expr(st, stmt.initializer) } })

\* one test of the condition of Stmt::While (interpreter.rs:67), the
\* condition evaluated
WhileTest(condition, stmt) ==
    LET thuthy == is_thuthy(condition.value)
        s1 == Observe(condition.st, [kind |-> "Test", site |-> "While",
                                     value |-> condition.value,
                                     taken |-> thuthy])
    IN IF Stopped(s1) \/ ~thuthy THEN s1
       ELSE Only({ WhileLoop(s2, stmt)
                   : s2 \in { evaluate_stmt(s1, stmt.body) } })

\* the loop of Stmt::While (interpreter.rs:67-69)
WhileLoop(st, stmt) ==
    Only({ WhileTest(condition, stmt)
           : condition \in { evaluate_expr(st, stmt.condition) } })

\* Stmt::While (interpreter.rs:66-70)
VisitWhile(st, stmt) == WhileLoop(st, stmt)

\* the branch of Stmt::If (interpreter.rs:74-81), the condition evaluated
IfBranch(condition_result, stmt) ==
    LET thuthy == is_thuthy(condition_result.value)
        s1 == Observe(condition_result.st,
                      [kind |-> "Test", site |-> "If",
                       value |-> condition_result.value, taken |-> thuthy])
    IN IF thuthy THEN evaluate_stmt(s1, stmt.then_branch)
       ELSE IF stmt.else_branch # <<>>
            THEN evaluate_stmt(s1, stmt.else_branch[1])
            ELSE s1

\* Stmt::If (interpreter.rs:71-82)
VisitIf(st, stmt) ==
    Only({ IfBranch(condition_result, stmt)
           : condition_result \in { evaluate_expr(st, stmt.condition) } })

\* the environment a Function value holds (mod.rs:27, read at mod.rs:92): the
\* one current at the declaration
CapturedEnvironment(st) == st.environment

\* Stmt::Function (interpreter.rs:83-90)
VisitFunction(st, stmt) ==
    LET function == Function(stmt.name, stmt.params, stmt.body,
                             CapturedEnvironment(st))
    IN define(st, st.environment, stmt.name, function)

\* StmtVisitor::visit (interpreter.rs:47-93), behind evaluate_stmt
\* (interpreter.rs:24-26); any other statement panics
evaluate_stmt(st, stmt) ==
    IF Stopped(st) THEN st
    ELSE CASE stmt.s = "Print" -> VisitPrint(st, stmt)
           [] stmt.s = "Expression" -> VisitExpression(st, stmt)
           [] stmt.s = "Block" -> VisitBlock(st, stmt)
           [] stmt.s = "Var" -> VisitVar(st, stmt)
           [] stmt.s = "While" -> VisitWhile(st, stmt)
           [] stmt.s = "If" -> VisitIf(st, stmt)
           [] stmt.s = "Function" -> VisitFunction(st, stmt)
           [] OTHER -> Panic(st)

(* ----------------------- the programs run ------------------------------ *)
Num(n) == ExprLiteral(Number(n))
Str(x) == ExprLiteral(String(x))
Id(name) == ExprVariable(name)
Do(expression) == StmtExpression(expression)

\* fun makeCounter() { var i = 0; fun counter() { i = i + 1; print i; }
\*                     return counter; }
FunCounter ==
    StmtFunction("counter", <<>>,
        << Do(ExprAssign("i", ExprBinary(Id("i"), "Plus", Num(1)))),
           StmtPrint(Id("i")) >>)
FunMakeCounter ==
    StmtFunction("makeCounter", <<>>,
        << StmtVar("i", Num(0)), FunCounter, StmtReturn(Id("counter")) >>)
\* var counter = makeCounter();
VarCounter == StmtVar("counter", ExprCall(Id("makeCounter"), <<>>))
\* counter();
CallCounter == Do(ExprCall(Id("counter"), <<>>))
MakeCounterProgram == << FunMakeCounter, VarCounter, CallCounter, CallCounter >>

\* fun f(x) { a = x; }
FunF == StmtFunction("f", <<"x">>, << Do(ExprAssign("a", Id("x"))) >>)

FunctionPool == { FunMakeCounter, FunF }

VarPool ==
    { StmtVar("a", Num(1)),
      StmtVar("b", ExprLiteral(Unitialized)),
      VarCounter }

ExpressionPool ==
    { CallCounter,
      \* f(1, b = 2);   f(2);   a();   clock(clock());
      Do(ExprCall(Id("f"), << Num(1), ExprAssign("b", Num(2)) >>)),
      Do(ExprCall(Id("f"), << Num(2) >>)),
      Do(ExprCall(Id("a"), <<>>)),
      Do(ExprCall(Id("clock"), << ExprCall(Id("clock"), <<>>) >>)),
      \* "a" - 1;   b = 2;
      Do(ExprBinary(Str("a"), "Minus", Num(1))),
      Do(ExprAssign("b", Num(2))) }

PrintPool ==
    { \* print a;   print c = 3;   print -"a";   print z;
      StmtPrint(Id("a")),
      StmtPrint(ExprAssign("c", Num(3))),
      StmtPrint(ExprUnary("Minus", Str("a"))),
      StmtPrint(Id("z")) }

BlockPool ==
    { \* { var a = 2; var c = 1; a = 3; b = 4; }
      StmtBlock(<< StmtVar("a", Num(2)), StmtVar("c", Num(1)),
                   Do(ExprAssign("a", Num(3))), Do(ExprAssign("b", Num(4))) >>),
      \* { var i = 0; fun counter() { .. } { var i = 2; counter(); counter(); } }
      StmtBlock(<< StmtVar("i", Num(0)), FunCounter,
                   StmtBlock(<< StmtVar("i", Num(2)), CallCounter,
                                CallCounter >>) >>),
      \* { var c = 1; "a" - 1; { z; } }
      StmtBlock(<< StmtVar("c", Num(1)),
                   Do(ExprBinary(Str("a"), "Minus", Num(1))),
                   StmtBlock(<< Do(Id("z")) >>) >>),
      \* { var i = 0; fun g() { i = i + 1; print i; } a = g; }
      StmtBlock(<< StmtVar("i", Num(0)),
                   StmtFunction("g", <<>>, FunCounter.body),
                   Do(ExprAssign("a", Id("g"))) >>) }

IfPool ==
    { \* if (a) print "yes"; else print "no";
      StmtIf(Id("a"), StmtPrint(Str("yes")), << StmtPrint(Str("no")) >>),
      \* if (b) { var c = 1; }
      StmtIf(Id("b"), StmtBlock(<< StmtVar("c", Num(1)) >>), <<>>) }

WhilePool ==
    { \* while (a < 2) a = a + 1;
      StmtWhile(ExprBinary(Id("a"), "Less", Num(2)),
                Do(ExprAssign("a", ExprBinary(Id("a"), "Plus", Num(1))))) }

\* what the native function may return
NativeValues == { Number(0), Number(1) }

(* ----------------------------- state ------------------------------------ *)
VARIABLES
    envs,         \* the scopes: envs[id] = [values, enclosing]
    environment,  \* Interpreter.environment (interpreter.rs:6)
    globals,      \* Interpreter.globals (interpreter.rs:7)
    errors,       \* the faults the error reporter has received
    output,       \* the lines written to stdout
    aborted,      \* the process has panicked
    events,       \* what the last top-level statement did, in order
    ran           \* the top-level statements run so far

vars == << envs, environment, globals, errors, output, aborted, events, ran >>

\* Interpreter::new (interpreter.rs:11-18)
Init ==
    /\ envs = << NewEnvironment(NoEnv) >>
    /\ environment = 1
    /\ globals = 1
    /\ errors = <<>>
    /\ output = <<>>
    /\ aborted = FALSE
    /\ events = <<>>
    /\ ran = <<>>

Start(native) ==
    [envs |-> envs, environment |-> environment, errors |-> errors,
     output |-> output, aborted |-> FALSE, oob |-> FALSE, native |-> native,
     events |-> <<>>, evals |-> 0, writes |-> 0, invocations |-> 0,
     blocks |-> 0]

\* the driver hands one statement to evaluate_stmt (interpreter.rs:24-26)
Run(stmt, native, limit) ==
    /\ ~aborted
    /\ Len(ran) < limit
    /\ \E st \in { evaluate_stmt(Start(native), stmt) } :
          /\ ~st.oob
          /\ envs' = st.envs
          /\ environment' = st.environment
          /\ errors' = st.errors
          /\ output' = st.output
          /\ aborted' = st.aborted
          /\ events' = st.events
    /\ ran' = Append(ran, stmt)
    /\ UNCHANGED globals

\* the driver registers a native function in the global scope before the
\* program starts
RegisterBuiltin ==
    /\ ran = <<>>
    /\ "clock" \notin DOMAIN envs[globals].values
    /\ envs' = [envs EXCEPT ![globals].values = ("clock" :> Builtin("clock")) @@ @]
    /\ UNCHANGED << environment, globals, errors, output, aborted, events, ran >>

RunPrint == \E s \in PrintPool : Run(s, Nil, MaxSteps)
RunExpression ==
    \E s \in ExpressionPool, n \in NativeValues : Run(s, n, MaxSteps)
RunBlock == \E s \in BlockPool : Run(s, Nil, MaxSteps)
RunVar == \E s \in VarPool : Run(s, Nil, MaxSteps)
RunWhile == \E s \in WhilePool : Run(s, Nil, MaxSteps)
RunIf == \E s \in IfPool : Run(s, Nil, MaxSteps)
RunFunction == \E s \in FunctionPool : Run(s, Nil, MaxSteps)

Next ==
    \/ RegisterBuiltin
    \/ RunPrint
    \/ RunExpression
    \/ RunBlock
    \/ RunVar
    \/ RunWhile
    \/ RunIf
    \/ RunFunction

Spec == Init /\ [][Next]_vars

(* ------------- the operators applied to drawn operands ----------------- *)
\* operator applications run by one behaviour of SpecOperands
MaxOperations == 1

\* the values a and b may hold: one or more of every variant of Object
OperandValues ==
    { Nil, Unitialized, Boolean(FALSE), Boolean(TRUE), Number(0), Number(1),
      NaN, String(""), String("1"), Builtin("clock"), Return(Nil),
      Function("f", <<"x">>, FunF.body, 1) }

\* the state after declarations have bound a and b in the global scope
InitOperands ==
    /\ \E x \in OperandValues, y \in OperandValues :
          envs = << [enclosing |-> NoEnv, values |-> ("a" :> x) @@ ("b" :> y)] >>
    /\ environment = 1
    /\ globals = 1
    /\ errors = <<>>
    /\ output = <<>>
    /\ aborted = FALSE
    /\ events = <<>>
    /\ ran = <<>>

BinaryOperators ==
    { "Plus", "Minus", "Slash", "Star", "Greater", "GreaterEqual", "Less",
      "LessEqual", "BangEqual", "EqualEqual" }

\* b = 1
SetB == ExprAssign("b", Num(1))

\* a <op> b;
OperandBinary ==
    \E op \in BinaryOperators :
        Run(Do(ExprBinary(Id("a"), op, Id("b"))), Nil, MaxOperations)

\* !a;   -a;
OperandUnary ==
    \E op \in {"Bang", "Minus"} : Run(Do(ExprUnary(op, Id("a"))), Nil, MaxOperations)

\* a or (b = 1);   a and (b = 1);   false and (1 / 0);   a or z;
OperandLogical ==
    \/ \E op \in {"Or", "And"} :
          \E right \in { SetB, Id("z") } :
             Run(Do(ExprLogical(Id("a"), op, ExprGrouping(right))), Nil,
                 MaxOperations)
    \/ Run(Do(ExprLogical(ExprLiteral(Boolean(FALSE)), "And",
                          ExprGrouping(ExprBinary(Num(1), "Slash", Num(0))))),
           Nil, MaxOperations)

\* if (a) print "yes"; else print "no";
OperandIf ==
    Run(StmtIf(Id("a"), StmtPrint(Str("yes")), << StmtPrint(Str("no")) >>),
        Nil, MaxOperations)

\* while (a) a = nil;
OperandWhile ==
    Run(StmtWhile(Id("a"), Do(ExprAssign("a", ExprLiteral(Nil)))),
        Nil, MaxOperations)

NextOperands ==
    \/ OperandBinary
    \/ OperandUnary
    \/ OperandLogical
    \/ OperandIf
    \/ OperandWhile

SpecOperands == InitOperands /\ [][NextOperands]_vars

(* ------------------------------ claims --------------------------------- *)
Last(seq) == seq[Len(seq)]

\* the events of one kind the last statement produced
EventsOf(kind) == { i \in DOMAIN events : events[i].kind = kind }

\* the falsy values as the claims list them: Nil, Uninitialized, false
Falsy(value) ==
    \/ value.t \in {"Nil", "Unitialized"}
    \/ (value.t = "Boolean" /\ value.v = FALSE)

\* the scopes of a chain, innermost first
RECURSIVE Chain(_, _)
Chain(heap, env) ==
    IF env = NoEnv THEN <<>> ELSE <<env>> \o Chain(heap, heap[env].enclosing)

\* the positions of a chain whose scope binds name
Binders(heap, env, name) ==
    { k \in DOMAIN Chain(heap, env) :
        name \in DOMAIN heap[Chain(heap, env)[k]].values }

\* the names a lookup from the current environment finds
Visible(heap, env) ==
    UNION { DOMAIN heap[Chain(heap, env)[k]].values : k \in DOMAIN Chain(heap, env) }

\* C1: every execute_block, of a block or of a function body, leaves the
\* current environment as it was immediately before, also when a statement
\* inside it has reported a runtime error and however deeply it is nested; so
\* between top-level statements the current environment is the global one.
C1_BlockRestoresEnvironment ==
    /\ \A i \in EventsOf("Block") : events[i].after = events[i].before
    /\ ~aborted => environment = globals

\* a nested block in which a runtime error was reported has been left
C1_Witness ==
    \E i \in EventsOf("Block") :
        /\ events[i].reported # <<>>
        /\ events[i].before # globals
        /\ events[i].active # events[i].before
        /\ events[i].after = events[i].before

\* C2: after a top-level block has run, no name declared inside it is visible
\* (the visible names are those visible before it), and an assignment of a
\* literal inside it to a name bound outside and not declared in the block has
\* changed that outer binding.
DeclaredIn(block) ==
    { block.statements[k].name :
        k \in { j \in DOMAIN block.statements :
                  block.statements[j].s \in {"Var", "Function"} } }

\* the statements of the block that assign a literal to an outer name, last
LiteralAssigns(block) ==
    { k \in DOMAIN block.statements :
        /\ block.statements[k].s = "Expression"
        /\ block.statements[k].expression.e = "Assign"
        /\ block.statements[k].expression.value.e = "Literal"
        /\ block.statements[k].expression.name \notin DeclaredIn(block)
        /\ \A j \in DOMAIN block.statements :
              j > k => block.statements[j].s = "Expression"
                       /\ block.statements[j].expression.e = "Assign"
                       /\ block.statements[j].expression.name
                            # block.statements[k].expression.name }

BlockScoping ==
    (ran' # ran /\ Last(ran').s = "Block" /\ ~aborted') =>
        /\ Visible(envs', environment') = Visible(envs, environment)
        /\ \A k \in LiteralAssigns(Last(ran')) :
              LET target == Last(ran').statements[k].expression IN
              target.name \in Visible(envs, environment) =>
                  envs'[globals].values[target.name] = target.value.value

C2_BlockScoping == [][BlockScoping]_vars

\* { var a = 2; var c = 1; a = 3; b = 4; } has run with a and b global: c is
\* not visible, the global a is untouched and the global b is 4
C2_Witness ==
    /\ ran # <<>>
    /\ Last(ran).s = "Block"
    /\ Len(Last(ran).statements) = 4
    /\ {"a", "b"} \subseteq DOMAIN envs[globals].values
    /\ "c" \notin Visible(envs, environment)
    /\ envs[globals].values["a"] = Number(1)
    /\ envs[globals].values["b"] = Number(4)

\* C3: the makeCounter program runs to its end and its two calls counter();
\* counter(); print 1 then 2.
C3_MakeCounterPrints ==
    \A k \in 2..Len(MakeCounterProgram) :
        ran = SubSeq(MakeCounterProgram, 1, k) =>
            /\ ~aborted
            /\ k = Len(MakeCounterProgram) => output = <<"1", "2">>

\* C4: an expression that reports a runtime fault of its own (a lookup or an
\* assignment that misses, an operator applied to the wrong operands, a call
\* refused) yields Nil.
OwnFault(ev) ==
    /\ ev.kind \in {"Variable", "Assign", "Unary", "Binary", "Call"}
    /\ ev.kind = "Call" => ev.invocations = 0
    /\ ev.reported # <<>>

C4_FaultYieldsNil ==
    \A i \in DOMAIN events : OwnFault(events[i]) => events[i].value = Nil

\* the evaluate_expr calls one evaluation of a call-free expression makes
RECURSIVE Nodes(_)
Nodes(expr) ==
    CASE expr.e \in {"Literal", "Variable"} -> 1
      [] expr.e = "Grouping" -> 1 + Nodes(expr.expression)
      [] expr.e = "Assign" -> 1 + Nodes(expr.value)
      [] expr.e = "Unary" -> 1 + Nodes(expr.right)
      [] OTHER -> 1 + Nodes(expr.left) + Nodes(expr.right)

\* the left operand decides the result
Decided(ev) ==
    \/ (ev.operator = "Or" /\ ~Falsy(ev.left))
    \/ (ev.operator = "And" /\ Falsy(ev.left))

\* C5: when the left operand of or/and decides the result, nothing of the
\* right operand is evaluated (no evaluate_expr call, no scope written, no
\* fault reported, nothing printed) and the left value is the result;
\* otherwise the right operand is evaluated once, node by node, after the
\* left, and its value is the result.
C5_ShortCircuit ==
    \A i \in EventsOf("Logical") :
        LET ev == events[i]
            inner == ev.right.expression
        IN IF Decided(ev)
           THEN /\ ev.evals = 0
                /\ ev.writes = 0
                /\ ev.reported = <<>>
                /\ ev.printed = 0
                /\ ev.value = ev.left
           ELSE /\ ev.evals = Nodes(ev.right)
                /\ inner.e = "Assign" =>
                      /\ ev.value = inner.value.value
                      /\ ev.writes = 1
                      /\ envs[globals].values[inner.name] = inner.value.value
                /\ inner.e = "Variable" =>
                      /\ ev.value = Nil
                      /\ Len(ev.reported) = 1

\* false and (1 / 0); has run: no division, nothing reported, b as it was
C5_Witness ==
    /\ \E i \in EventsOf("Logical") :
          /\ events[i].operator = "And"
          /\ events[i].left = Boolean(FALSE)
          /\ events[i].right.expression.e = "Binary"
          /\ events[i].value = Boolean(FALSE)
          /\ events[i].evals = 0
    /\ errors = <<>>
    /\ envs[globals].values["b"] = String("1")

\* C6: a call is refused with NotCallable when the callee is no Function or
\* Builtin and with "Expected <arity> arguments, but got <count>." when the
\* count differs from the arity (the parameter count, 0 for a Builtin); a
\* refused call yields Nil and runs nothing of the callee; the callee is
\* invoked exactly when it is callable and the counts are equal.
Declared(callee) == IF callee.t = "Function" THEN Len(callee.params) ELSE 0

Digit(n) == <<"0", "1", "2", "3", "4", "5", "6", "7", "8", "9">>[n + 1]

C6_CallChecks ==
    \A i \in EventsOf("Call") :
        LET ev == events[i]
            callable == ev.callee.t \in {"Function", "Builtin"}
        IN /\ ~callable =>
                /\ ev.reported = << [token |-> ")",
                      message |-> "Can only call functions and classes."] >>
                /\ ev.value = Nil
           /\ (callable /\ ev.count # Declared(ev.callee)) =>
                /\ ev.reported = << [token |-> ")",
                      message |-> "Expected " \o Digit(Declared(ev.callee))
                                  \o " arguments, but got " \o Digit(ev.count)
                                  \o "."] >>
                /\ ev.value = Nil
           /\ (callable /\ ev.count = Declared(ev.callee)) <=>
                ev.invocations >= 1
           /\ ev.invocations = 0 => ev.bodies = 0

\* f(1, b = 2); was refused: the message of the claim, Nil, no body run, and
\* the argument b = 2 evaluated all the same
C6_Witness ==
    \E i \in EventsOf("Call") :
        /\ events[i].callee.t = "Function"
        /\ events[i].count = 2
        /\ events[i].reported[1].message = "Expected 1 arguments, but got 2."
        /\ events[i].value = Nil
        /\ events[i].bodies = 0
        /\ "b" \in DOMAIN envs[globals].values
        /\ envs[globals].values["b"] = Number(2)

\* C7: an assignment to a name bound in the chain overwrites the innermost
\* binding of the name and changes nothing else; an assignment to a name bound
\* nowhere in the chain reports the fault and changes no scope, so the name is
\* still unbound.
C7_AssignNeverCreates ==
    \A i \in EventsOf("Assign") :
        LET ev == events[i]
            chain == Chain(ev.before, ev.environment)
            binders == Binders(ev.before, ev.environment, ev.name)
            first == CHOOSE k \in binders : \A j \in binders : k <= j
        IN IF binders # {}
           THEN /\ ev.after = [ev.before EXCEPT
                      ![chain[first]].values[ev.name] = ev.assigned]
                /\ ev.reported = <<>>
           ELSE /\ ev.after = ev.before
                /\ Len(ev.reported) = 1
                /\ Binders(ev.after, ev.environment, ev.name) = {}

\* one statement assigned to a name bound in two scopes of the chain, and to a
\* name bound in none
C7_Witness ==
    /\ \E i \in EventsOf("Assign") :
          /\ Cardinality(Binders(events[i].before, events[i].environment,
                                 events[i].name)) = 2
          /\ events[i].after # events[i].before
    /\ \E i \in EventsOf("Assign") :
          /\ Binders(events[i].before, events[i].environment,
                     events[i].name) = {}
          /\ events[i].reported # <<>>

\* C8: == and != report nothing; on operands of different variants == is
\* false and != is true; Nil equals Nil and nothing else.
C8_EqualityNoCoercion ==
    \A i \in EventsOf("Binary") :
        LET ev == events[i] IN
        ev.operator \in {"EqualEqual", "BangEqual"} =>
            /\ ev.reported = <<>>
            /\ ev.left.t # ev.right.t =>
                  ev.value = Boolean(ev.operator = "BangEqual")
            /\ (ev.left.t = "Nil" /\ ev.right.t = "Nil") =>
                  ev.value = Boolean(ev.operator = "EqualEqual")

\* 1 == "1" has been evaluated to false
C8_Witness ==
    /\ \E i \in EventsOf("Binary") :
          /\ events[i].operator = "EqualEqual"
          /\ events[i].left = Number(1)
          /\ events[i].right = String("1")
          /\ events[i].value = Boolean(FALSE)
    /\ errors = <<>>

\* C9: wherever a condition is tested (If, While, !, or, and) the test passes
\* exactly when the value is not Nil, Uninitialized or false; ! yields the
\* negation, and if (a) print "yes"; else print "no"; prints accordingly.
C9_Truthiness ==
    /\ \A i \in EventsOf("Test") : events[i].taken = ~Falsy(events[i].value)
    /\ \A i \in EventsOf("Unary") :
          events[i].operator = "Bang" =>
              events[i].value = Boolean(Falsy(events[i].right))
    /\ (ran # <<>> /\ Last(ran).s = "If") =>
          Last(output) = IF Falsy(envs[globals].values["a"]) THEN "no"
                         ELSE "yes"
    /\ (ran # <<>> /\ Last(ran).s = "While") =>
          /\ Falsy(envs[globals].values["a"])
          /\ \A i \in EventsOf("Test") : i < Len(events) => events[i].taken

\* if (0) print "yes"; else print "no"; has printed yes
C9_Witness ==
    /\ \E i \in EventsOf("Test") :
          /\ events[i].site = "If"
          /\ events[i].value = Number(0)
          /\ events[i].taken
    /\ output = <<"yes">>

\* C10: > >= < <= on two Strings reports nothing and yields Nil; on any other
\* pair that is not two Numbers it reports "Operands must be numbers." and
\* yields Nil.
Relational == {"Greater", "GreaterEqual", "Less", "LessEqual"}

C10_StringRelationalSilent ==
    \A i \in EventsOf("Binary") :
        LET ev == events[i]
            both(t) == ev.left.t = t /\ ev.right.t = t
        IN ev.operator \in Relational =>
            /\ both("String") => (ev.reported = <<>> /\ ev.value = Nil)
            /\ (~both("String") /\ ~both("Number")) =>
                  /\ ev.reported = << [token |-> ev.operator,
                                       message |-> "Operands must be numbers."] >>
                  /\ ev.value = Nil

\* "" < "1" has yielded Nil and the reporter has received nothing
C10_Witness ==
    /\ \E i \in EventsOf("Binary") :
          /\ events[i].operator = "Less"
          /\ events[i].left = String("")
          /\ events[i].right = String("1")
          /\ events[i].value = Nil
    /\ errors = <<>>

====
